---- MODULE Spec2Model ----
(***************************************************************************)
(* Model of the Location API service (src/backend/location_api.py): the    *)
(* geofence-aware search (search_locations and the four search endpoints)  *)
(* and the exact postcode lookup behind functools.lru_cache               *)
(* (get_location_from_cache, get_location, lifespan shutdown).             *)
(*                                                                         *)
(* Units.  Strings are sequences of one-character strings.  Coordinates    *)
(* are integers in tenths of a degree.  Distances and radii are integers   *)
(* in thousandths of a metre, so that the source's                         *)
(*   ((dLon*dLon) + (dLat*dLat)) * 111319.9                                *)
(* is, for dLon = dx/10 and dLat = dy/10, exactly (dx*dx + dy*dy)*1113199  *)
(* thousandths.                                                            *)
(***************************************************************************)
EXTENDS Integers, Sequences, FiniteSets, TLC

VARIABLES
    store,      \* rows of table location_data, in rowid order (read-only while serving)
    resp,       \* the search request last handled and the response it got
    cache,      \* the lru_cache of get_location_from_cache: entries, least recently used first
    thr,        \* per request thread of GET /location/{postcode}: position, postcode, response
    hist,       \* history since the last cache_clear, for one observed key: calls,
                \* store queries, and what happened to the key's entry
    spatialite, \* what loading the SpatiaLite extension does in this process
    db          \* the store access of the search request in resp: connections opened
                \* and closed, statements run, exception that left the with block

vars == <<store, resp, cache, thr, hist, spatialite, db>>

---------------------------------------------------------------------------
(* Bounds of the model *)

\* Largest number of rows in the location table.
MaxRows == 2

\* Calls and store queries of the observed key are counted up to this number.
MaxQueries == 2

---------------------------------------------------------------------------
(* Values *)

\* Python None (an omitted optional parameter) and SQL NULL (a missing coordinate),
\* as an integer outside every range the code accepts.
None == -9999

\* SQL NULL in a text column.
NullText == <<"NULL">>

UpperCase ==
    [c \in {"a", "l", "n", "o", "z"} |->
        CASE c = "a" -> "A" [] c = "l" -> "L" [] c = "n" -> "N" [] c = "o" -> "O" [] c = "z" -> "Z"]

\* str.upper() on one character, also the case folding of SQLite's LIKE (ASCII only).
Upper(c) == IF c \in DOMAIN UpperCase THEN UpperCase[c] ELSE c

UpperStr(s) == [i \in 1..Len(s) |-> Upper(s[i])]

UpperLetters == {"A", "B", "K", "L", "N", "O", "Z"}
LowerLetters == {"a", "l", "n", "o", "z"}
Digits == {"1", "2", "9"}
Whitespace == {" "}

\* The characters sanitize_input removes: ; ' " \
Dangerous == {";", "'", "\"", "\\"}

RECURSIVE Filter(_, _)
\* The subsequence of s whose characters are not in drop.
Filter(s, drop) ==
    IF s = <<>> THEN <<>>
    ELSE IF Head(s) \in drop THEN Filter(Tail(s), drop)
    ELSE <<Head(s)>> \o Filter(Tail(s), drop)

\* re.sub(r'[;\'\"\\]', '', value)
sanitize_input(value) == Filter(value, Dangerous)

\* str.replace(' ', '')
RemoveSpaces(s) == Filter(s, {" "})

RECURSIVE LStrip(_)
LStrip(s) == IF s # <<>> /\ Head(s) \in Whitespace THEN LStrip(Tail(s)) ELSE s

RECURSIVE RStrip(_)
RStrip(s) ==
    IF s # <<>> /\ s[Len(s)] \in Whitespace THEN RStrip(SubSeq(s, 1, Len(s) - 1)) ELSE s

\* str.strip()
Strip(s) == RStrip(LStrip(s))

\* value LIKE 'q%' : q is a prefix of value, ASCII case-insensitive; NULL never matches.
LikePrefix(value, q) ==
    /\ value # NullText
    /\ Len(q) <= Len(value)
    /\ \A j \in 1..Len(q) : Upper(value[j]) = Upper(q[j])

\* value LIKE '%q%' : q occurs in value, ASCII case-insensitive; NULL never matches.
LikeContains(value, q) ==
    /\ value # NullText
    /\ \E i \in 0..(Len(value) - Len(q)) :
           \A j \in 1..Len(q) : Upper(value[i + j]) = Upper(q[j])

---------------------------------------------------------------------------
(* The location table *)

sLON == <<"L", "O", "N">>
sON == <<"O", "N">>
sN_O == <<"N", " ", "O">>
sKN == <<"K", "N">>
sLO == <<"L", "O">>
sEmpty == <<>>

PcA == <<"A", "1", " ", "1", "A", "A">>
PcB == <<"B", "1", " ", "1", "A", "A">>
PcK == <<"K", "1", " ", "2", "A", "B">>
PcZ == <<"Z", "Z", "9", "9", " ", "9", "Z", "Z">>

Row(pc, lat, lon, town, county, d1, d2) ==
    [Postcode |-> pc, Latitude |-> lat, Longitude |-> lon, Town |-> town,
     County |-> county, District1 |-> d1, District2 |-> d2]

\* The rows a table is built from.  Street1, Street2 and Stem are carried through by
\* the code unread and are left out.  Two rows share postcode PcA (duplicates are
\* allowed); one row has no coordinates, as the loader stores an empty cell as NULL.
Records ==
    { Row(PcA, 0, 0, sLON, sKN, sEmpty, sEmpty),
      Row(PcA, 0, 1, sON, sKN, sLON, NullText),
      Row(PcB, 1, 0, sN_O, sLO, sKN, sEmpty),
      Row(PcK, None, None, sLON, sLO, NullText, NullText) }

SeqsUpTo(S, n) == UNION {[1..k -> S] : k \in 0..n}

Stores == SeqsUpTo(Records, MaxRows)

\* PRAGMA table_info(location_data): lower-cased column name -> actual name.
columns ==
    [c \in {"stem", "postcode", "latitude", "longitude", "town", "county",
            "street1", "street2", "district1", "district2"} |->
        CASE c = "stem" -> "Stem" [] c = "postcode" -> "Postcode"
          [] c = "latitude" -> "Latitude" [] c = "longitude" -> "Longitude"
          [] c = "town" -> "Town" [] c = "county" -> "County"
          [] c = "street1" -> "Street1" [] c = "street2" -> "Street2"
          [] c = "district1" -> "District1" [] c = "district2" -> "District2"]

\* field.lower() for the field names that are passed
FieldLower(field) ==
    CASE field = "Postcode" -> "postcode" [] field = "Town" -> "town"
      [] field = "County" -> "county" [] OTHER -> field

---------------------------------------------------------------------------
(* get_db_connection *)

\* What lines 305-313 do in a process.  "missing": find_spatialite_extension finds
\* no file and the load is skipped.  "loaded": the extension loads.
\* "sqlite3.Error": enable_load_extension or load_extension raises sqlite3.Error,
\* which is caught and logged.  "AttributeError": the interpreter's sqlite3 module
\* is built without loadable-extension support, Connection has no
\* enable_load_extension, and the AttributeError is not caught.
SpatialiteStates == {"missing", "loaded", "sqlite3.Error", "AttributeError"}

\* No connection was opened and no statement run.
NoAccess == [opened |-> 0, closed |-> 0, statements |-> <<>>, raised |-> ""]

\* get_db_connection up to its yield: sqlite3.connect, then the attempt to load
\* the extension; raises is the exception that escapes before the try block.
get_db_connection(ext) ==
    [raises |-> IF ext = "AttributeError" THEN "AttributeError" ELSE "",
     statements |-> IF ext \in {"loaded", "sqlite3.Error"} THEN <<"load_extension">>
                    ELSE <<>>]

\* The store access of one `with get_db_connection() as conn:` block that ran
\* statements and was left by exception raised ("" for a normal exit): conn.close()
\* is in the finally clause around the yield, which an exception raised before
\* the yield never reaches.
Access(conn, statements, raised) ==
    IF conn.raises # ""
    THEN [opened |-> 1, closed |-> 0, statements |-> conn.statements,
          raised |-> conn.raises]
    ELSE [opened |-> 1, closed |-> 1, statements |-> conn.statements \o statements,
          raised |-> raised]

---------------------------------------------------------------------------
(* search_locations *)

Min(a, b) == IF a <= b THEN a ELSE b

\* metres per degree in the planar distance, times 1000 / 100 (see Units)
DistanceScale == 1113199

\* A distance that takes a NULL coordinate as 0.
DistanceNullAsZero(row, center_lat, center_lon) ==
    LET lat == IF row.Latitude = None THEN 0 ELSE row.Latitude
        lon == IF row.Longitude = None THEN 0 ELSE row.Longitude
    IN  ((center_lon - lon) * (center_lon - lon)
         + (center_lat - lat) * (center_lat - lat)) * DistanceScale

\* (((? - Longitude) * (? - Longitude) + (? - Latitude) * (? - Latitude)) * 111319.9);
\* NULL when a coordinate is NULL
Distance(row, center_lat, center_lon) ==
    IF row.Latitude = None \/ row.Longitude = None THEN None
    ELSE ((center_lon - row.Longitude) * (center_lon - row.Longitude)
          + (center_lat - row.Latitude) * (center_lat - row.Latitude)) * DistanceScale

\* A statement without the distance condition in its WHERE clause.
AnyDistance(distance, radius_meters) == distance # None

\* SQL comparison  distance <= ?  : not true when distance is NULL
DistanceFilter(distance, radius_meters) ==
    distance # None /\ distance <= radius_meters

WithinGeofenceStrict(distance, radius_meters) ==
    IF distance # None /\ distance < radius_meters THEN 1 ELSE 0

\* CASE WHEN distance <= ? THEN 1 ELSE 0 END as within_geofence
WithinGeofenceCase(distance, radius_meters) ==
    IF distance # None /\ distance <= radius_meters THEN 1 ELSE 0

\* The field filter of the geofence branch (where_clause), on one row.
GeoFieldFilter(row, query, field, actual_field) ==
    IF query # <<>> /\ field # ""
    THEN IF FieldLower(field) = "postcode"
         THEN LikeContains(row[actual_field], query)
         ELSE \/ LikeContains(row[actual_field], RemoveSpaces(query))
              \/ LikeContains(row.District1, RemoveSpaces(query))
              \/ LikeContains(row.District2, RemoveSpaces(query))
    ELSE TRUE

\* The WHERE clause of the search without geofence, on one row (query is not empty).
PlainFieldFilter(row, query, field, actual_field) ==
    IF FieldLower(field) = "postcode"
    THEN LikePrefix(row[actual_field], query)
    ELSE \/ LikeContains(row[actual_field], RemoveSpaces(query))
         \/ LikeContains(row.District1, RemoveSpaces(query))
         \/ LikeContains(row.District2, RemoveSpaces(query))

\* All orders of the rowids in S.
Perms(S) ==
    {p \in [1..Cardinality(S) -> S] : \A i, j \in 1..Cardinality(S) : p[i] = p[j] => i = j}

\* The rowids of S in table-scan order.
ScanOrder(S) ==
    CHOOSE p \in Perms(S) : \A i, j \in 1..Cardinality(S) : i < j => p[i] < p[j]

Unordered(S, dist) == Perms(S)

\* ORDER BY distance: every order of S in which distance never decreases (SQL leaves
\* the order of rows with equal distance open).
OrderByDistance(S, dist) ==
    {p \in Perms(S) : \A i, j \in 1..Cardinality(S) : i < j => dist[p[i]] <= dist[p[j]]}

NoLimit(rows, limit) == rows

\* LIMIT ?
Limit(rows, limit) == SubSeq(rows, 1, Min(limit, Len(rows)))

\* A conversion that leaves distance at the default of LocationResponse.
LocationWithoutDistance(s, id, within_geofence, distance) ==
    [rowid |-> id,
     postcode |-> s[id].Postcode,
     latitude |-> IF s[id].Latitude # None THEN s[id].Latitude ELSE 0,
     longitude |-> IF s[id].Longitude # None THEN s[id].Longitude ELSE 0,
     town |-> IF s[id].Town = NullText THEN <<>> ELSE s[id].Town,
     county |-> IF s[id].County = NullText THEN <<>> ELSE s[id].County,
     district1 |-> IF s[id].District1 = NullText THEN <<>> ELSE s[id].District1,
     district2 |-> IF s[id].District2 = NullText THEN <<>> ELSE s[id].District2,
     within_geofence |-> within_geofence,
     distance |-> None]

\* A row as a LocationResponse; rowid is kept to tell equal rows apart.
Location(s, id, within_geofence, distance) ==
    [rowid |-> id,
     postcode |-> s[id].Postcode,
     latitude |-> IF s[id].Latitude # None THEN s[id].Latitude ELSE 0,
     longitude |-> IF s[id].Longitude # None THEN s[id].Longitude ELSE 0,
     town |-> IF s[id].Town = NullText THEN <<>> ELSE s[id].Town,
     county |-> IF s[id].County = NullText THEN <<>> ELSE s[id].County,
     district1 |-> IF s[id].District1 = NullText THEN <<>> ELSE s[id].District1,
     district2 |-> IF s[id].District2 = NullText THEN <<>> ELSE s[id].District2,
     within_geofence |-> within_geofence,
     distance |-> distance]

\* bool(row['within_geofence'])
PyBool(v) == IF v # 0 THEN "True" ELSE "False"

\* The geofence query: the rows passing the field filter and the distance filter,
\* ordered by distance, cut at limit, each with its distance and within_geofence.
GeofenceRows(s, query, field, actual_field, limit, center_lat, center_lon, radius_meters) ==
    LET dist == [id \in 1..Len(s) |-> Distance(s[id], center_lat, center_lon)]
        M == {id \in 1..Len(s) :
                 /\ GeoFieldFilter(s[id], query, field, actual_field)
                 /\ DistanceFilter(dist[id], radius_meters)}
    IN  { [i \in 1..Len(ids) |->
              Location(s, ids[i],
                       PyBool(WithinGeofenceCase(dist[ids[i]], radius_meters)),
                       dist[ids[i]])] :
          ids \in {Limit(p, limit) : p \in OrderByDistance(M, dist)} }

\* The search without geofence: table-scan order, cut at limit, no distance columns.
PlainRows(s, query, field, actual_field, limit) ==
    LET M == {id \in 1..Len(s) :
                 query # <<>> => PlainFieldFilter(s[id], query, field, actual_field)}
        ids == Limit(ScanOrder(M), limit)
    IN  { [i \in 1..Len(ids) |-> Location(s, ids[i], "None", None)] }

\* search_locations: [raises |-> the exception of get_db_connection] when the
\* connection is not handed over, [raises |-> "ValueError"] for an unknown field,
\* [raises |-> "HTTPException500"] when sqlite rejects the statement, else
\* [raises |-> "", results |-> the result lists the query can produce]; db is the
\* store access of the call.
search_locations(ext, s, query, field, limit, center_lat, center_lon, radius_meters) ==
    LET conn == get_db_connection(ext)
        field_lower == FieldLower(field)
        actual_field == IF field_lower \in DOMAIN columns THEN columns[field_lower]
                        ELSE "None"
    IN  IF conn.raises # ""
        THEN [raises |-> conn.raises, results |-> {}, db |-> Access(conn, <<>>, "")]
        ELSE IF field_lower # "" /\ field_lower \notin DOMAIN columns
        THEN [raises |-> "ValueError", results |-> {},
              db |-> Access(conn, <<"PRAGMA table_info">>, "ValueError")]
        ELSE IF center_lat # None /\ center_lon # None /\ radius_meters # None
        THEN IF radius_meters = 0
             THEN [raises |-> "", results |-> {<<>>},
                   db |-> Access(conn, <<"PRAGMA table_info", "SELECT">>, "")]
             ELSE [raises |-> "",
                   results |-> GeofenceRows(s, query, field, actual_field, limit,
                                            center_lat, center_lon, radius_meters),
                   db |-> Access(conn, <<"PRAGMA table_info", "SELECT">>, "")]
        ELSE IF query # <<>> /\ field_lower = ""
        THEN [raises |-> "HTTPException500", results |-> {},
              db |-> Access(conn, <<"PRAGMA table_info", "SELECT">>, "HTTPException")]
        ELSE [raises |-> "",
              results |-> PlainRows(s, query, field, actual_field, limit),
              db |-> Access(conn, <<"PRAGMA table_info", "SELECT">>, "")]

---------------------------------------------------------------------------
(* calculate_distances of csv_to_sqlite, fallback strategy *)

Abs(n) == IF n < 0 THEN -n ELSE n

\* earth_radius_meters * 2 * ASIN(SQRT(POWER(SIN(dlat / 2), 2)
\*     + COS(center_lat) * COS(Latitude) * POWER(SIN(dlon / 2), 2)))
\* in thousandths of a metre, rounded down, for the coordinates of Records and
\* the centres of the model, which differ by 0 or 0.1 degree at the equator:
\* 11119.492 m for 0.1 degree along one axis, 15725.333 m along both.
Haversine(row, center_lat, center_lon) ==
    LET dlat == Abs(row.Latitude - center_lat)
        dlon == Abs(row.Longitude - center_lon)
    IN  CASE dlat = 0 /\ dlon = 0 -> 0
          [] dlat + dlon = 1 -> 11119492
          [] dlat = 1 /\ dlon = 1 -> 15725333

\* The rows calculate_distances lists: WHERE Latitude IS NOT NULL AND Longitude
\* IS NOT NULL, then WHERE distance <= search_radius_meters.
calculate_distances(s, center_lat, center_lon, radius_meters) ==
    {id \in 1..Len(s) :
        /\ s[id].Latitude # None /\ s[id].Longitude # None
        /\ Haversine(s[id], center_lat, center_lon) <= radius_meters}

---------------------------------------------------------------------------
(* The search endpoints *)

\* Query(ge=1, le=5000) and validate_limit
MaxLimit == 5000

\* ge=-90, le=90 and validate_latitude, in tenths of a degree
MaxLatitude == 900

\* ge=-180, le=180 and validate_longitude, in tenths of a degree
MaxLongitude == 1800

\* ge=0, le=50000 and validate_radius, in thousandths of a metre
MaxRadius == 50000000

\* radius_meters of /search/spatial when omitted (15000 m)
DefaultRadius == 15000000

\* Path(max_length=8) of /search/postcode/{query}
MaxPostcodeQueryLen == 8

\* Path(max_length=100) of /search/town/{query} and /search/county/{query}
MaxNameQueryLen == 100

\* len(v.replace(' ', '')) > 7 in validate_postcode
MaxPostcodeLen == 7

LimitValid(limit) == 1 <= limit /\ limit <= MaxLimit

\* The range constraints on the optional geofence parameters.
GeofenceParamsValid(center_lat, center_lon, radius_meters) ==
    /\ center_lat # None => (-MaxLatitude <= center_lat /\ center_lat <= MaxLatitude)
    /\ center_lon # None => (-MaxLongitude <= center_lon /\ center_lon <= MaxLongitude)
    /\ radius_meters # None => (0 <= radius_meters /\ radius_meters <= MaxRadius)

\* PostcodeQuery.validate_postcode, on the upper-cased query
validate_postcode(v) ==
    /\ v # <<>>
    /\ \A i \in 1..Len(v) : v[i] \in UpperLetters \cup Digits \cup Whitespace
    /\ Len(RemoveSpaces(v)) <= MaxPostcodeLen

\* TownQuery.validate_town and CountyQuery.validate_county (TOWN_PATTERN = COUNTY_PATTERN)
validate_town(v) ==
    /\ v # <<>>
    /\ \A i \in 1..Len(v) :
           v[i] \in UpperLetters \cup LowerLetters \cup Whitespace \cup {"-", "'", "."}
    /\ Len(v) <= MaxNameQueryLen

\* [loc for loc in locations if loc.within_geofence]
WithinRadius(locations) == SelectSeq(locations, LAMBDA loc : loc.within_geofence = "True")

SwappedCounts(status, locations, total_count, within_radius_count) ==
    [status |-> status, locations |-> locations, total_count |-> within_radius_count,
     within_radius_count |-> total_count]

\* LocationListResponse(locations=..., total_count=..., within_radius_count=...)
Response(status, locations, total_count, within_radius_count) ==
    [status |-> status, locations |-> locations, total_count |-> total_count,
     within_radius_count |-> within_radius_count]

ErrorResponse(status) == Response(status, <<>>, None, None)

FlaggedCount(locations, radius_meters) == Len(WithinRadius(locations))

\* len(within_radius) of search_by_postcode, search_by_town and search_by_county:
\* within_radius = [loc ... if loc.within_geofence] if radius_meters else locations
FieldWithinRadiusCount(locations, radius_meters) ==
    IF radius_meters # None /\ radius_meters # 0
    THEN Len(WithinRadius(locations))
    ELSE Len(locations)

\* len(within_radius) of search_by_distance
SpatialWithinRadiusCount(locations) == Len(WithinRadius(locations))

\* What a handler did: its response and its store access.
Outcome(response, access) == [response |-> response, db |-> access]

\* A handler like Rejected that has entered search_locations when it rejects.
RejectedInsideBlock(status) ==
    Outcome(ErrorResponse(status), Access(get_db_connection("missing"), <<>>, ""))

\* A request that fails the parameter constraints (422, before the handler body
\* runs) or the validators of the query model (ValueError, 400): the handler
\* has not called search_locations.
Rejected(status) == Outcome(ErrorResponse(status), NoAccess)

\* GET /search/spatial : the outcomes the handler can have.
search_by_distance(ext, s, limit, center_lat, center_lon, radius_meters) ==
    LET radius == IF radius_meters = None THEN DefaultRadius ELSE radius_meters
    IN  IF \/ center_lat = None \/ center_lon = None
           \/ ~GeofenceParamsValid(center_lat, center_lon, radius)
           \/ ~LimitValid(limit)
        THEN {Rejected(422)}
        ELSE LET found == search_locations(ext, s, <<>>, "", limit,
                                           center_lat, center_lon, radius)
             IN  IF found.raises = "ValueError"
                 THEN {Outcome(ErrorResponse(400), found.db)}
                 ELSE IF found.raises # "" THEN {Outcome(ErrorResponse(500), found.db)}
                 ELSE {Outcome(Response(200, locations, Len(locations),
                                        SpatialWithinRadiusCount(locations)),
                               found.db) :
                       locations \in found.results}

\* GET /search/postcode/{query}, /search/town/{query}, /search/county/{query}:
\* the outcomes the handler can have; field is the name the handler passes to
\* search_locations ('Postcode', 'Town' or 'County' in the three handlers).
search_by_field(ext, s, field, query, limit, center_lat, center_lon, radius_meters) ==
    LET maxlen == IF field = "Postcode" THEN MaxPostcodeQueryLen ELSE MaxNameQueryLen
        validated == IF field = "Postcode" THEN UpperStr(query) ELSE query
        valid == IF field = "Postcode" THEN validate_postcode(validated)
                 ELSE validate_town(validated)
        safe_query == IF field = "Postcode" THEN Strip(sanitize_input(validated))
                      ELSE sanitize_input(validated)
    IN  IF \/ Len(query) < 1 \/ Len(query) > maxlen
           \/ ~GeofenceParamsValid(center_lat, center_lon, radius_meters)
           \/ ~LimitValid(limit)
        THEN {Rejected(422)}
        ELSE IF ~valid THEN {Rejected(400)}
        ELSE LET found == search_locations(ext, s, safe_query, field, limit,
                                           center_lat, center_lon, radius_meters)
             IN  IF found.raises = "ValueError"
                 THEN {Outcome(ErrorResponse(400), found.db)}
                 ELSE IF found.raises # "" THEN {Outcome(ErrorResponse(500), found.db)}
                 ELSE {Outcome(Response(200, locations, Len(locations),
                                        FieldWithinRadiusCount(locations, radius_meters)),
                               found.db) :
                       locations \in found.results}

---------------------------------------------------------------------------
(* Requests of the model *)

PostcodeQueries ==
    { <<"A", "1">>, <<"1", "A">>, <<"a", "1", " ">>, <<"A", ";">>,
      <<"Z", "Z", "9", "9", " ", "9", "Z", "Z", "A">> }

TownQueries == { sLON, sN_O, <<"O", " ", "N">>, <<"o", "'", "n">>, <<"9">> }

CountyQueries == { sKN, <<"l", "o">> }

\* A field name that is no column of location_data.
UnknownField == "zipcode"

Queries(field) ==
    CASE field = "Postcode" -> PostcodeQueries
      [] field = "Town" -> TownQueries
      [] field = "County" -> CountyQueries
      [] OTHER -> {sLON, <<"9">>}

Limits == {0, 1, 2, MaxLimit, MaxLimit + 1}

CenterLats == {None, 0, MaxLatitude + 1}

CenterLons == {None, 0, -MaxLongitude - 1}

\* absent, zero, below and exactly at one grid step (0.1 degree), above the maximum, negative
Radii == {None, 0, 1000000, DistanceScale, MaxRadius + 1, -1}

---------------------------------------------------------------------------
(* The exact lookup: get_location_from_cache behind functools.lru_cache *)

\* maxsize of the lru_cache.  The source sets 1000; the capacity is scaled down so
\* that the lookups of the model can overflow it.
ScaledCacheSize == 2

CACHE_SIZE == ScaledCacheSize

Threads == {"t1", "t2"}

\* The postcodes requested: two that rows of Records carry (one of them on a row
\* without coordinates), one no row carries, one that fails the format pattern.
LookupPostcodes == {PcA, PcK, PcZ, <<"A", "1">>}

\* ^[A-Z]{1,2}[0-9][A-Z0-9]? ?[0-9][A-Z]{2}$
MatchesPostcodePattern(p) ==
    \E a \in {1, 2}, b \in {0, 1}, sp \in {0, 1} :
        /\ Len(p) = a + 1 + b + sp + 3
        /\ \A i \in 1..a : p[i] \in UpperLetters
        /\ p[a + 1] \in Digits
        /\ b = 1 => p[a + 2] \in UpperLetters \cup Digits
        /\ sp = 1 => p[a + 1 + b + 1] = " "
        /\ p[a + 1 + b + sp + 1] \in Digits
        /\ p[a + 1 + b + sp + 2] \in UpperLetters
        /\ p[a + 1 + b + sp + 3] \in UpperLetters

\* postcode = sanitize_input(postcode.upper()) : the key of the cache
CacheKey(postcode) == sanitize_input(UpperStr(postcode))

Keys == {CacheKey(p) : p \in {q \in LookupPostcodes : MatchesPostcodePattern(q)}}

\* cursor.fetchone() found nothing
NoRow == [Postcode |-> <<>>]

\* SELECT ... FROM location_data WHERE Postcode = ? LIMIT 1 ; cursor.fetchone():
\* the first row with that postcode (text is compared exactly), or nothing.
FetchOne(s, postcode) ==
    LET M == {id \in 1..Len(s) : s[id].Postcode = postcode}
    IN  IF M = {} THEN NoRow
        ELSE s[CHOOSE id \in M : \A other \in M : id <= other]

\* What get_location_from_cache gives for a fetched row: "None", a
\* LocationResponse, or TypeError when float() is given a NULL coordinate.
Convert(row) ==
    IF row = NoRow THEN [kind |-> "None"]
    ELSE IF row.Latitude = None \/ row.Longitude = None THEN [kind |-> "TypeError"]
    ELSE [kind |-> "LocationResponse",
          postcode |-> row.Postcode, latitude |-> row.Latitude,
          longitude |-> row.Longitude,
          town |-> IF row.Town = NullText THEN <<>> ELSE row.Town,
          county |-> IF row.County = NullText THEN <<>> ELSE row.County,
          district1 |-> IF row.District1 = NullText THEN <<>> ELSE row.District1,
          district2 |-> IF row.District2 = NullText THEN <<>> ELSE row.District2]

\* The call of get_location_from_cache(postcode) when it is not answered from the
\* cache: the exception of get_db_connection, or the converted row.
Lookup(ext, s, postcode) ==
    LET conn == get_db_connection(ext)
    IN  IF conn.raises # "" THEN [kind |-> conn.raises]
        ELSE Convert(FetchOne(s, postcode))

\* A wrapper that stores whatever the call ended with.
NeverRaised(result) == FALSE

\* A wrapper that stores found records only.
NotFoundOrRaised(result) == result.kind # "LocationResponse"

\* The call ended in an exception: lru_cache stores nothing.
Raised(result) == result.kind \notin {"None", "LocationResponse"}

CachedKeys(c) == {c[i].key : i \in 1..Len(c)}

NeverCached(c, key) == FALSE

\* A cache whose entry for the observed postcode expires after CACHE_TTL.
InCacheAndFresh(c, key) == key \in CachedKeys(c) /\ ~(key = hist.key /\ hist.aged)

\* The lru_cache holds an entry for key.
InCache(c, key) == key \in CachedKeys(c)

StaleValue(c, key) == [kind |-> "None"]

\* The cached result for key.
CachedValue(c, key) == (CHOOSE e \in {c[i] : i \in 1..Len(c)} : e.key = key).value

\* A cache whose hits leave the order of the entries as it is.
NoTouch(c, key) == c

\* A hit moves the entry to the most recently used end.
Touch(c, key) ==
    SelectSeq(c, LAMBDA e : e.key # key) \o <<[key |-> key, value |-> CachedValue(c, key)]>>

\* The wrapper after the call returned: an entry that appeared meanwhile is kept as
\* it is; a full cache drops its least recently used entry; the result is appended.
Insert(c, key, value) ==
    IF InCache(c, key) THEN c
    ELSE IF Len(c) >= CACHE_SIZE THEN Tail(c) \o <<[key |-> key, value |-> value]>>
    ELSE c \o <<[key |-> key, value |-> value]>>

\* get_location's response for a result of get_location_from_cache.
LookupResponse(result) ==
    IF result.kind = "None" THEN [status |-> 404, body |-> result]
    ELSE IF result.kind = "LocationResponse" THEN [status |-> 200, body |-> result]
    ELSE [status |-> 500, body |-> result]

NoResponse == [status |-> 0, body |-> [kind |-> "None"]]

---------------------------------------------------------------------------
(* State machine *)

IdleThread == [pc |-> "idle", postcode |-> <<>>, key |-> <<>>, response |-> NoResponse]

\* Nothing has happened to the observed key since the last cache_clear.
NoHistory(key) ==
    [key |-> key, calls |-> 0, queries |-> 0, same |-> TRUE, first |-> NoResponse,
     raced |-> FALSE, evicted |-> FALSE, failed |-> FALSE, aged |-> FALSE]

IdleResp ==
    [endpoint |-> "none", query |-> <<>>, limit |-> None, center_lat |-> None,
     center_lon |-> None, radius_meters |-> None, status |-> 0, locations |-> <<>>,
     total_count |-> None, within_radius_count |-> None]

Handled(endpoint, query, limit, center_lat, center_lon, radius_meters, r) ==
    [endpoint |-> endpoint, query |-> query, limit |-> limit, center_lat |-> center_lat,
     center_lon |-> center_lon, radius_meters |-> radius_meters, status |-> r.status,
     locations |-> r.locations, total_count |-> r.total_count,
     within_radius_count |-> r.within_radius_count]

\* The table was loaded before the service started; nothing is cached or in flight.
Init ==
    /\ store \in Stores
    /\ resp = IdleResp
    /\ cache = <<>>
    /\ thr = [t \in Threads |-> IdleThread]
    /\ hist \in {NoHistory(k) : k \in Keys}
    /\ spatialite \in SpatialiteStates
    /\ db = NoAccess

\* GET /search/spatial
SearchByDistance ==
    /\ resp = IdleResp
    /\ \E limit \in Limits, center_lat \in CenterLats, center_lon \in CenterLons,
          radius_meters \in Radii :
         \E o \in search_by_distance(spatialite, store, limit, center_lat, center_lon,
                                     radius_meters) :
            /\ resp' = Handled("spatial", <<>>, limit, center_lat, center_lon,
                               radius_meters, o.response)
            /\ db' = o.db
    /\ UNCHANGED <<store, cache, thr, hist, spatialite>>

\* GET /search/postcode/{query}, /search/town/{query}, /search/county/{query}
SearchByField(field) ==
    /\ resp = IdleResp
    /\ \E query \in Queries(field), limit \in Limits, center_lat \in CenterLats,
          center_lon \in CenterLons, radius_meters \in Radii :
         \E o \in search_by_field(spatialite, store, field, query, limit, center_lat,
                                  center_lon, radius_meters) :
            /\ resp' = Handled(field, query, limit, center_lat, center_lon,
                               radius_meters, o.response)
            /\ db' = o.db
    /\ UNCHANGED <<store, cache, thr, hist, spatialite>>

SearchByPostcode == SearchByField("Postcode")

SearchByTown == SearchByField("Town")

SearchByCounty == SearchByField("County")

\* search_locations called with a field the table does not have, inside the try
\* block of a handler coded like search_by_town (no endpoint passes such a field).
SearchByUnknownField == SearchByField(UnknownField)

\* No field, as search_by_distance passes it.
NoField == ""

\* search_locations called with a query and no field, inside the try block of a
\* handler coded like search_by_town (no endpoint passes a query without a field).
SearchByNoField == SearchByField(NoField)

\* The response has been sent; the handler is ready for the next search request.
SearchDone ==
    /\ resp # IdleResp
    /\ resp' = IdleResp
    /\ db' = NoAccess
    /\ UNCHANGED <<store, cache, thr, hist, spatialite>>

\* One more, up to the cap.
Count(n) == Min(n + 1, MaxQueries)

\* hist after a call of get_location_from_cache(key) ended with response r.
Called(h, key, r) ==
    IF key # h.key THEN h
    ELSE [h EXCEPT !.calls = Count(@),
                   !.first = IF h.calls = 0 THEN r ELSE @,
                   !.same = @ /\ (h.calls = 0 \/ r = h.first)]

\* GET /location/{postcode} up to the call of get_location_from_cache: a postcode
\* that fails the pattern is answered 422; a cached key is answered from the cache
\* (lru_cache hit); otherwise the wrapped function is entered.
GetLocationOf(t, postcode) ==
    LET key == CacheKey(postcode)
    IN  /\ thr[t].pc \in {"idle", "done"}
        /\ IF ~MatchesPostcodePattern(postcode)
           THEN /\ thr' = [thr EXCEPT ![t] =
                      [IdleThread EXCEPT !.pc = "done", !.postcode = postcode,
                          !.response = [status |-> 422, body |-> [kind |-> "None"]]]]
                /\ UNCHANGED <<cache, hist>>
           ELSE IF InCache(cache, key)
           THEN /\ thr' = [thr EXCEPT ![t] =
                      [IdleThread EXCEPT !.pc = "done", !.postcode = postcode,
                          !.key = key,
                          !.response = LookupResponse(CachedValue(cache, key))]]
                /\ cache' = Touch(cache, key)
                /\ hist' = Called(hist, key, LookupResponse(CachedValue(cache, key)))
           ELSE /\ thr' = [thr EXCEPT ![t] =
                      [IdleThread EXCEPT !.pc = "miss", !.postcode = postcode,
                          !.key = key]]
                /\ hist' = IF key = hist.key
                                /\ \E u \in Threads \ {t} :
                                       thr[u].pc = "miss" /\ thr[u].key = key
                           THEN [hist EXCEPT !.raced = TRUE]
                           ELSE hist
                /\ UNCHANGED cache
        /\ UNCHANGED <<store, resp, spatialite, db>>

GetLocation(t) == \E postcode \in LookupPostcodes : GetLocationOf(t, postcode)

\* The body of get_location_from_cache and the rest of get_location, run by a
\* thread that missed: a connection is opened, the store is queried and the row
\* converted; a result is put in the cache and answered 200 or 404; an exception
\* is answered 500 and nothing is cached.  The table does not change while serving, so the query gives the same
\* row wherever it falls between the miss and the insertion: they are one step.
Resolve(t) ==
    /\ thr[t].pc = "miss"
    /\ LET key == thr[t].key
           result == Lookup(spatialite, store, key)
           queried == IF key = hist.key /\ get_db_connection(spatialite).raises = ""
                      THEN [hist EXCEPT !.queries = Count(@)] ELSE hist
           called == Called(queried, key, LookupResponse(result))
       IN  /\ thr' = [thr EXCEPT ![t].pc = "done", ![t].response = LookupResponse(result)]
           /\ IF Raised(result)
              THEN /\ cache' = cache
                   /\ hist' = IF key = hist.key THEN [called EXCEPT !.failed = TRUE]
                              ELSE called
              ELSE /\ cache' = Insert(cache, key, result)
                   /\ hist' = IF /\ ~InCache(cache, key)
                                 /\ Len(cache) >= CACHE_SIZE
                                 /\ Head(cache).key = hist.key
                              THEN [called EXCEPT !.evicted = TRUE, !.aged = FALSE]
                              ELSE called
    /\ UNCHANGED <<store, resp, spatialite, db>>

\* The server has stopped: this worker takes no more requests.
StoppedThread == [IdleThread EXCEPT !.pc = "stopped"]

\* A shutdown that drops the least recently used entry only.
ClearOldest ==
    /\ \A t \in Threads : thr[t].pc \in {"idle", "done"}
    /\ cache' = IF cache = <<>> THEN cache ELSE Tail(cache)
    /\ thr' = [t \in Threads |-> StoppedThread]
    /\ UNCHANGED <<store, resp, hist, spatialite, db>>

\* lifespan shutdown: get_location_from_cache.cache_clear(), once no request is in
\* flight.  The server takes no request after it; the next lifespan is a new
\* process, which starts in Init.
Shutdown ==
    /\ \A t \in Threads : thr[t].pc \in {"idle", "done"}
    /\ cache' = <<>>
    /\ thr' = [t \in Threads |-> StoppedThread]
    /\ hist' = [hist EXCEPT !.aged = FALSE]
    /\ UNCHANGED <<store, resp, spatialite, db>>

\* Cache TTL in seconds (1 hour)
CACHE_TTL == 3600

\* More than CACHE_TTL seconds pass while the entry of the observed postcode is
\* in the cache.  lru_cache keeps no time stamps and nothing reads CACHE_TTL or
\* the clock: the service does nothing.
Wait ==
    /\ InCache(cache, hist.key)
    /\ ~hist.aged
    /\ hist' = [hist EXCEPT !.aged = TRUE]
    /\ UNCHANGED <<store, resp, cache, thr, spatialite, db>>

\* One caller calling the lookup of the observed key again and again.
RepeatNext ==
    \/ GetLocationOf("t1", hist.key)
    \/ Resolve("t1")

\* The two spellings of a postcode that POSTCODE_PATTERN admits: ' ?' in the middle.
Spellings == {PcA, RemoveSpaces(PcA)}

SpellingNext ==
    \/ \E t \in Threads : \E postcode \in Spellings : GetLocationOf(t, postcode)
    \/ \E t \in Threads : Resolve(t)

SearchNext ==
    \/ SearchByDistance
    \/ SearchByPostcode
    \/ SearchByTown
    \/ SearchByCounty
    \/ SearchByUnknownField
    \/ SearchByNoField
    \/ SearchDone

LookupNext ==
    \/ \E t \in Threads : GetLocation(t)
    \/ \E t \in Threads : Resolve(t)
    \/ Shutdown

\* One worker serving lookups while time passes.
TtlNext ==
    \/ GetLocation("t1")
    \/ Resolve("t1")
    \/ Wait

Next == SearchNext \/ LookupNext \/ Wait

\* The whole service.
Spec == Init /\ [][Next]_vars

\* The service under search requests only.  Searches read store and write resp;
\* lookups read store and write cache, thr and hist: neither changes what the
\* other reads, so what holds of the searches here holds of them under Spec.
SearchSpec == Init /\ [][SearchNext]_vars

\* Lookups behave alike in every process whose get_db_connection hands over the
\* connection (extension file missing, loaded, or failed with sqlite3.Error): one
\* such process stands for the three, next to the process where it raises.
LookupInit == Init /\ spatialite \in {"missing", "AttributeError"}

\* The service under exact lookups and shutdown only.
LookupSpec == LookupInit /\ [][LookupNext]_vars

\* The service under one caller that looks up one postcode N times in a row.
RepeatSpec == Init /\ [][RepeatNext]_vars

\* The service under lookups of one stored postcode written with the space and
\* without it (both spellings match POSTCODE_PATTERN).
SpellingSpec == LookupInit /\ [][SpellingNext]_vars

\* The service under the lookups of one worker, with entries outliving CACHE_TTL.
TtlSpec == LookupInit /\ [][TtlNext]_vars

---------------------------------------------------------------------------
(* Claims about the search endpoints, checked under SearchSpec *)

\* A search request was answered 200.
Answered == resp.endpoint # "none" /\ resp.status = 200

\* The radius the handler passed on: /search/spatial fills in its default.
PassedRadius ==
    IF resp.endpoint = "spatial" /\ resp.radius_meters = None
    THEN DefaultRadius ELSE resp.radius_meters

\* The request carried all three geofence values.
CompleteGeofence ==
    resp.center_lat # None /\ resp.center_lon # None /\ PassedRadius # None

Returned == {resp.locations[i] : i \in 1..Len(resp.locations)}

\* The query and the field the handler passed to search_locations.
PassedQuery ==
    IF resp.endpoint = "Postcode" THEN Strip(sanitize_input(UpperStr(resp.query)))
    ELSE sanitize_input(resp.query)

PassedField == IF resp.endpoint = "spatial" THEN "" ELSE resp.endpoint

\* The rows of the table the geofence query of the answered request selects: those
\* that pass the field filter and lie within the radius (none when the radius is 0).
Selected ==
    IF PassedRadius = 0 THEN {}
    ELSE {id \in 1..Len(store) :
             /\ GeoFieldFilter(store[id], PassedQuery, PassedField, PassedField)
             /\ DistanceFilter(Distance(store[id], resp.center_lat, resp.center_lon),
                               PassedRadius)}

\* C1: every search request with radius_meters = 0, with or without center
\* coordinates, is answered with no locations and within_radius_count = 0.
C1_ZeroRadiusIsEmpty ==
    (Answered /\ resp.radius_meters = 0)
        => (resp.locations = <<>> /\ resp.within_radius_count = 0)

\* C2: with a geofence, a returned row is flagged within_geofence exactly when its
\* reported distance is at most radius_meters.
C2_FlagIffWithinRadius ==
    (Answered /\ CompleteGeofence) =>
        \A loc \in Returned :
            /\ loc.within_geofence \in {"True", "False"}
            /\ loc.within_geofence = "True" <=> loc.distance <= PassedRadius

\* A row exactly on the radius was returned.
C2_Witness ==
    /\ Answered /\ CompleteGeofence
    /\ \E loc \in Returned : loc.distance = PassedRadius /\ loc.distance > 0

C4_AtMostLimit ==
    Answered => Len(resp.locations) <= resp.limit

\* A search without geofence over a table with more rows than limit returned
\* exactly limit rows.
C4_Witness ==
    /\ Answered
    /\ resp.center_lat = None
    /\ Len(resp.locations) = resp.limit
    /\ Len(store) > resp.limit

\* C8 as claimed: total_count is the number of returned locations and
\* within_radius_count the number of them flagged within_geofence, for every
\* search response, whatever part of a geofence the request carried.
C8_CountsAsClaimed ==
    Answered =>
        /\ resp.total_count = Len(resp.locations)
        /\ resp.within_radius_count = Len(WithinRadius(resp.locations))

\* C8 as amended: total_count is the number of returned locations;
\* within_radius_count is the number of them flagged within_geofence when the
\* geofence is complete; without a complete geofence no row is flagged, and
\* within_radius_count is total_count when radius_meters is absent or 0, else 0.
C8_Counts ==
    Answered =>
        /\ resp.total_count = Len(resp.locations)
        /\ CompleteGeofence =>
               resp.within_radius_count = Len(WithinRadius(resp.locations))
        /\ ~CompleteGeofence =>
               /\ \A loc \in Returned : loc.within_geofence = "None"
               /\ resp.within_radius_count =
                      IF resp.radius_meters \in {None, 0} THEN resp.total_count ELSE 0

\* A field search without geofence returned rows, none flagged, all counted.
C8_Witness ==
    /\ Answered /\ resp.endpoint # "spatial"
    /\ resp.center_lat = None /\ resp.center_lon = None /\ resp.radius_meters = None
    /\ Len(resp.locations) >= 1
    /\ resp.within_radius_count = resp.total_count

\* C9: in every successful search response total_count >= within_radius_count.
C9_TotalAtLeastWithin ==
    Answered => resp.total_count >= resp.within_radius_count

\* A response with fewer rows counted within the radius than returned.
C9_Witness ==
    Answered /\ resp.total_count > resp.within_radius_count

---------------------------------------------------------------------------
(* Claims about the exact lookup *)

Done(t) == thr[t].pc = "done" /\ MatchesPostcodePattern(thr[t].postcode)

\* C5: N calls of get_location_from_cache(P) with no cache_clear between them
\* make exactly one store query and return N identical values (RepeatSpec).
C5_OneQueryForNCalls ==
    hist.calls >= 1 => (hist.queries = 1 /\ hist.same)

C7_SameResultForAll ==
    \A t, u \in Threads :
        (Done(t) /\ Done(u) /\ thr[t].postcode = thr[u].postcode)
            => thr[t].response = thr[u].response

\* Two lookups of the observed postcode overlapped before it was cached, and both
\* were answered 200.
C7_Witness ==
    /\ hist.raced
    /\ \A t \in Threads :
           Done(t) /\ thr[t].key = hist.key /\ thr[t].response.status = 200

\* C10: a lookup of a well-formed postcode is answered 200 with the stored record
\* when the table has a row with that postcode, and 404 when it has none.
C10_FoundOrNotFound ==
    \A t \in Threads :
        Done(t) =>
            IF \E id \in 1..Len(store) : store[id].Postcode = thr[t].postcode
            THEN /\ thr[t].response.status = 200
                 /\ thr[t].response.body.kind = "LocationResponse"
                 /\ thr[t].response.body.postcode = thr[t].postcode
            ELSE thr[t].response.status = 404

---------------------------------------------------------------------------
(* Claims about the field filters, checked under SearchSpec *)

C12_TownContainsQuery ==
    (Answered /\ resp.endpoint = "Town") =>
        \A loc \in Returned :
            \/ LikeContains(loc.town, PassedQuery)
            \/ LikeContains(loc.district1, PassedQuery)
            \/ LikeContains(loc.district2, PassedQuery)

\* C13: a county search returns only rows whose county contains the query,
\* whatever their district1 and district2 hold, with a geofence and without.
C13_CountyContainsQuery ==
    (Answered /\ resp.endpoint = "County") =>
        \A loc \in Returned : LikeContains(loc.county, PassedQuery)

---------------------------------------------------------------------------
(* Claims about errors and the store connection, checked under SearchSpec *)

\* search_locations was called for the request in resp (every call opens a
\* connection first).
Called_search_locations == resp.endpoint # "none" /\ db.opened >= 1

\* The statements run on the connection of the request in resp.
Statements == {db.statements[i] : i \in 1..Len(db.statements)}

\* C14: search_locations called with a field that is no column of the table
\* raises the unknown-field error (ValueError) without running a search query,
\* and the handler answers it with a client error (400), not 500.
C14_UnknownFieldIsClientError ==
    (Called_search_locations /\ resp.endpoint = UnknownField) =>
        /\ db.raised = "ValueError"
        /\ "SELECT" \notin Statements
        /\ resp.status = 400

\* The request carried none of the three geofence values.
NoGeofence ==
    resp.center_lat = None /\ resp.center_lon = None /\ PassedRadius = None

\* C15: every search request that is executed carries all three geofence values
\* or none of them; one with only one or two of them is rejected.
C15_GeofenceAllOrNone ==
    Called_search_locations => (CompleteGeofence \/ NoGeofence)

\* The search request in resp was answered with a client error.
ClientError == resp.endpoint # "none" /\ resp.status \in {400, 422}

\* C17 as stated: every request rejected with a client error, the one with an
\* unknown field included, was rejected before any store access: no connection
\* was opened and no statement was run for it.
C17_RejectedBeforeStoreAccess == ClientError => db = NoAccess

\* C17: a request rejected for its parameters or its query characters was
\* rejected before any store access; a request rejected for its unknown field
\* was rejected after a connection was opened and the columns of the table were
\* read, with no search query run and the connection closed.
C17_ValidationBeforeStoreAccess ==
    ClientError =>
        IF db.raised = "ValueError"
        THEN /\ resp.endpoint = UnknownField
             /\ db.opened = 1 /\ db.closed = 1
             /\ "PRAGMA table_info" \in Statements
             /\ "SELECT" \notin Statements
        ELSE db = NoAccess

\* A search with a query of invalid characters was answered 400 without any
\* store access.
C17_Witness ==
    /\ ClientError /\ resp.status = 400 /\ resp.endpoint = "Postcode"
    /\ LimitValid(resp.limit)
    /\ db = NoAccess

\* C18: when a search request has finished, every connection that
\* get_db_connection opened for it has been closed, whichever way the operation
\* left: normal return, store error, unknown field, or a failure while loading
\* the spatial extension.
C18_EveryConnectionClosed ==
    resp.endpoint # "none" => db.closed = db.opened

\* The outcomes the request in resp would have in a process whose spatial
\* extension is in state ext.
OutcomesWith(ext) ==
    IF resp.endpoint = "spatial"
    THEN search_by_distance(ext, store, resp.limit, resp.center_lat, resp.center_lon,
                            resp.radius_meters)
    ELSE search_by_field(ext, store, resp.endpoint, resp.query, resp.limit,
                         resp.center_lat, resp.center_lon, resp.radius_meters)

\* C19: a search request served while the spatial extension is missing or has
\* failed to load does not fail for that reason: it gets a status that the same
\* request on the same table gets with the extension loaded.
C19_ExtensionFailureIsNotFatal ==
    (resp.endpoint # "none" /\ spatialite # "loaded") =>
        resp.status \in {o.response.status : o \in OutcomesWith("loaded")}

\* C24: search_locations called with an empty field and any query applies no
\* base filter: where the connection is handed over the call succeeds and
\* returns rows that the same call with an empty query returns, with a geofence
\* and without.
C24_NoFieldNoFilter ==
    (/\ Called_search_locations /\ resp.endpoint = NoField
     /\ get_db_connection(spatialite).raises = "") =>
        /\ resp.status = 200
        /\ resp.locations \in
               search_locations(spatialite, store, <<>>, NoField, resp.limit,
                                resp.center_lat, resp.center_lon, PassedRadius).results

\* C25: for the same table, centre and radius (above 0), the geofence search of
\* the service and calculate_distances of the loader, fallback strategy, find
\* the same rows within the radius.
C25_OneDistanceMetric ==
    (Answered /\ resp.endpoint = "spatial" /\ PassedRadius > 0) =>
        Selected = calculate_distances(store, resp.center_lat, resp.center_lon,
                                       PassedRadius)

NullCoordinates(loc) ==
    store[loc.rowid].Latitude = None \/ store[loc.rowid].Longitude = None

\* C28: a row with a NULL latitude or longitude is never returned by a search
\* with a complete geofence; a search without one returns it with the missing
\* coordinate reported as 0.
C28_NullCoordinatesOutsideGeofence ==
    Answered =>
        \A loc \in Returned :
            NullCoordinates(loc) =>
                /\ ~CompleteGeofence
                /\ store[loc.rowid].Latitude = None => loc.latitude = 0
                /\ store[loc.rowid].Longitude = None => loc.longitude = 0

\* A town search with a complete geofence and room left under limit did not
\* return a row without coordinates that passes its field filter.
C28_Witness ==
    /\ Answered /\ CompleteGeofence /\ PassedRadius > 0
    /\ resp.endpoint = "Town"
    /\ Len(resp.locations) < resp.limit
    /\ \E id \in 1..Len(store) :
           /\ store[id].Latitude = None
           /\ GeoFieldFilter(store[id], PassedQuery, PassedField, PassedField)

\* C29: every returned location has within_geofence and distance both set when
\* the request carried all three geofence values, and both null when it carried
\* none or only some of them.
C29_FlagAndDistanceTogether ==
    Answered =>
        \A loc \in Returned :
            IF CompleteGeofence
            THEN loc.within_geofence \in {"True", "False"} /\ loc.distance # None
            ELSE loc.within_geofence = "None" /\ loc.distance = None

\* A search that carried a radius and a latitude but no longitude returned a row.
C29_Witness ==
    /\ Answered
    /\ resp.center_lat # None /\ resp.center_lon = None /\ resp.radius_meters # None
    /\ Len(resp.locations) >= 1

---------------------------------------------------------------------------
(* Claims about the order of rows with equal distance *)

\* The code point of a character of a stored postcode.
Ord(c) ==
    CASE c = " " -> 32 [] c = "1" -> 49 [] c = "2" -> 50 [] c = "9" -> 57
      [] c = "A" -> 65 [] c = "B" -> 66 [] c = "K" -> 75 [] c = "Z" -> 90

RECURSIVE PostcodeLessEq(_, _)
\* a <= b as strings.
PostcodeLessEq(a, b) ==
    \/ a = <<>>
    \/ /\ b # <<>>
       /\ \/ Ord(Head(a)) < Ord(Head(b))
          \/ Head(a) = Head(b) /\ PostcodeLessEq(Tail(a), Tail(b))

\* C20: in the answer of a geofence query, rows with equal distance are in
\* ascending order of postcode, and where limit cut through a group of rows
\* with equal distance, the rows kept are those that come first by postcode.
C20_TiesOrderedByPostcode ==
    (Answered /\ CompleteGeofence) =>
        /\ \A i, j \in 1..Len(resp.locations) :
               (i < j /\ resp.locations[i].distance = resp.locations[j].distance)
                   => PostcodeLessEq(resp.locations[i].postcode,
                                     resp.locations[j].postcode)
        /\ \A id \in Selected \ {loc.rowid : loc \in Returned} :
               \A loc \in Returned :
                   loc.distance = Distance(store[id], resp.center_lat, resp.center_lon)
                       => PostcodeLessEq(loc.postcode, store[id].Postcode)

---------------------------------------------------------------------------
(* Claims about the spelling of the postcode of an exact lookup *)

\* C16: the space in the postcode of an exact lookup is optional: for a stored
\* postcode, the lookup written with the space and the one written without it
\* get the same record, and the two spellings share one cache entry.
C16_SpaceIsOptional ==
    \A t, u \in Threads :
        (/\ Done(t) /\ Done(u)
         /\ RemoveSpaces(thr[t].postcode) = RemoveSpaces(thr[u].postcode)
         /\ \E id \in 1..Len(store) : store[id].Postcode = thr[t].postcode)
            => (thr[u].response = thr[t].response /\ thr[u].key = thr[t].key)

---------------------------------------------------------------------------
(* Claims about the capacity and the lifetime of cache entries, checked under
   LookupSpec.  The entries of cache are kept from least to most recently used. *)

\* The entries of c other than the one for key k, in their order.
Without(c, k) == SelectSeq(c, LAMBDA e : e.key # k)

\* Thread t was answered from the cache in this step.
Hit(t) ==
    /\ thr[t].pc \in {"idle", "done"}
    /\ thr'[t].pc = "done"
    /\ MatchesPostcodePattern(thr'[t].postcode)
    /\ thr'[t] # thr[t]

\* A step that keeps the cache within CACHE_SIZE entries and in order of use: a
\* hit makes its entry the most recently used; any other change of a cache that
\* is not cleared puts one key k last, keeps the order of the other entries, and
\* drops an entry only when k is new and the cache was full, and then the least
\* recently used one.
LRUStep ==
    /\ Len(cache') <= CACHE_SIZE
    /\ \A t \in Threads : Hit(t) => cache'[Len(cache')].key = thr'[t].key
    /\ (cache' # cache /\ cache' # <<>>) =>
           LET k == cache'[Len(cache')].key
           IN  Without(cache', k) =
                   IF InCache(cache, k) \/ Len(cache) < CACHE_SIZE
                   THEN Without(cache, k)
                   ELSE Tail(cache)

\* C21: the cache never holds more than CACHE_SIZE entries, and the entry dropped
\* when a new one would exceed the capacity is the least recently used one, a
\* hit counting as a use.
C21_BoundedLeastRecentlyUsed == [][LRUStep]_vars

\* The entry of the observed postcode was evicted from the full cache by the
\* insertion of another, and the cache is full again.
C21_Witness ==
    /\ hist.evicted
    /\ ~InCache(cache, hist.key)
    /\ Len(cache) = CACHE_SIZE

\* C22: a postcode without a row is cached as not found: when its first lookup
\* was answered 404, later lookups of it (none overlapping the first, its entry
\* not evicted, no cache clear) are answered 404 too and the store was queried
\* once in all.
C22_NotFoundIsCached ==
    (/\ hist.calls >= 2 /\ hist.first.status = 404
     /\ ~hist.raced /\ ~hist.evicted)
        => (hist.queries = 1 /\ hist.same)

\* The observed postcode was looked up twice and answered 404, and its entry
\* (not found) is in the cache.
C22_Witness ==
    /\ hist.calls >= 2 /\ hist.first.status = 404
    /\ ~hist.raced /\ ~hist.evicted
    /\ InCache(cache, hist.key) /\ CachedValue(cache, hist.key).kind = "None"

\* The shutdown step of the lifespan has run.
Stopped == \A t \in Threads : thr[t].pc = "stopped"

\* The keys whose entries this step removes.
Removed == CachedKeys(cache) \ CachedKeys(cache')

\* A step after which a stopped service has an empty cache, and which removes
\* entries only by emptying the cache or by evicting the least recently used
\* entry of a full cache for a new one.
ClearStep ==
    /\ Stopped' => cache' = <<>>
    /\ Removed # {} =>
           \/ cache' = <<>>
           \/ /\ Len(cache) = CACHE_SIZE /\ Len(cache') = CACHE_SIZE
              /\ Removed = {Head(cache).key}

\* C23: once the shutdown step of the lifespan has run the cache holds no entry,
\* and no step of the service removes a subset of the entries other than the
\* capacity eviction.
C23_ShutdownClearsAll == [][ClearStep]_vars

\* The observed postcode was queried and cached, its entry was not evicted, and
\* after the shutdown the cache is empty.
C23_Witness ==
    /\ Stopped /\ cache = <<>>
    /\ hist.queries >= 1 /\ ~hist.failed /\ ~hist.evicted

---------------------------------------------------------------------------
(* Claims about the age of cache entries, checked under TtlSpec *)

\* The entry of the observed postcode is in the cache and is older than CACHE_TTL.
Outlived == hist.aged /\ hist.key \in CachedKeys(cache)

\* A step in which an entry older than CACHE_TTL is treated as any other: a
\* lookup of its postcode is answered with the cached value without a store
\* query, and the entry leaves the cache only when the cache is cleared or when
\* it is evicted from the full cache as the least recently used.
TtlStep ==
    Outlived =>
        /\ \A t \in Threads :
               (/\ thr[t].pc \in {"idle", "done"}
                /\ thr'[t].pc \in {"miss", "done"}
                /\ thr'[t].key = hist.key
                /\ hist'.calls # hist.calls \/ thr'[t] # thr[t])
                   => /\ thr'[t].pc = "done"
                      /\ thr'[t].response = LookupResponse(CachedValue(cache, hist.key))
                      /\ hist'.queries = hist.queries
        /\ hist.key \notin CachedKeys(cache') =>
               \/ cache' = <<>>
               \/ /\ Len(cache) = CACHE_SIZE
                  /\ Head(cache).key = hist.key

---------------------------------------------------------------------------
(* Claims about failed lookups, checked under LookupSpec *)

\* C30: a lookup whose store access fails (the connection is not handed over, or
\* the stored record cannot be converted) is answered 500 and leaves no cache
\* entry for its postcode, and every later lookup of the postcode goes to the
\* store again.
C30_FailureIsNotCached ==
    /\ \A t \in Threads :
           Done(t) =>
               /\ thr[t].response.status = 500
                      <=> thr[t].response.body.kind \notin {"None", "LocationResponse"}
               /\ thr[t].response.status = 500 => thr[t].key \notin CachedKeys(cache)
    /\ hist.failed =>
           /\ hist.key \notin CachedKeys(cache)
           /\ get_db_connection(spatialite).raises = "" => hist.queries = hist.calls

\* The observed postcode, stored on a row without coordinates, was looked up
\* twice: both lookups queried the store and failed, and nothing is cached for it.
C30_Witness ==
    /\ hist.failed /\ hist.calls >= 2 /\ hist.queries >= 2
    /\ hist.first.status = 500
    /\ hist.key \notin CachedKeys(cache)

====
